---- MODULE Spec2Model ----
(***************************************************************************)
(* Model of zmohammed5/fpga_image_processor, Python tools:                 *)
(*   src/python/benchmark.py     CPU-vs-FPGA benchmark harness             *)
(*   src/python/upload_image.py  serial image uploader                     *)
(*                                                                         *)
(* Floats are modelled as exact rationals [num, den] (den > 0), with       *)
(* NaN == [num |-> 0, den |-> 0] for numpy's nan.  The monotonic clock     *)
(* time.perf_counter() is a tick counter `now` with a tick of 1 ms.        *)
(***************************************************************************)
EXTENDS Integers, Sequences, FiniteSets, TLC

(***************************************************************************)
(* Bounds of the model.                                                    *)
(***************************************************************************)
\* Range of the clock: perf_counter readings lie in 0..MaxClock ticks.
MaxClock == 2
\* Largest iteration count passed to run_cpu_benchmark by a direct caller.
MaxIter == 2
\* Number of run_comparison calls a driver makes over all sessions.
MaxComparisons == 2
\* Largest width and height of the images given to the kernels.
MaxDim == 3

(***************************************************************************)
(* Float arithmetic as exact rationals.                                    *)
(***************************************************************************)
NaN == [num |-> 0, den |-> 0]

IsNaN(q) == q.den = 0

Abs(n) == IF n < 0 THEN -n ELSE n

RECURSIVE GCD(_, _)
GCD(a, b) == IF b = 0 THEN a ELSE GCD(b, a % b)

\* n/d in lowest terms, d > 0
RNorm(n, d) ==
    IF d = 0 THEN NaN
    ELSE LET g == GCD(Abs(n), d) IN [num |-> n \div g, den |-> d \div g]

RInt(n) == [num |-> n, den |-> 1]

RAdd(a, b) ==
    IF IsNaN(a) \/ IsNaN(b) THEN NaN
    ELSE LET g == GCD(a.den, b.den)
             l == (a.den \div g) * b.den
         IN  RNorm(a.num * (l \div a.den) + b.num * (l \div b.den), l)

RSub(a, b) == RAdd(a, [num |-> -b.num, den |-> b.den])

RMul(a, b) ==
    IF IsNaN(a) \/ IsNaN(b) THEN NaN
    ELSE LET g1 == GCD(Abs(a.num), b.den)
             g2 == GCD(Abs(b.num), a.den)
         IN  RNorm((a.num \div g1) * (b.num \div g2),
                   (a.den \div g2) * (b.den \div g1))

\* a / b for b >= 0; a zero divisor gives numpy's inf or nan, modelled as NaN
RDiv(a, b) ==
    IF IsNaN(a) \/ IsNaN(b) \/ b.num <= 0 THEN NaN
    ELSE RMul(a, [num |-> b.den, den |-> b.num])

RPositive(q) == ~IsNaN(q) /\ q.num > 0

RECURSIVE RSum(_)
RSum(s) == IF s = <<>> THEN RInt(0) ELSE RAdd(Head(s), RSum(Tail(s)))

\* np.mean(list): nan (with a RuntimeWarning, no exception) for an empty list
Mean(s) ==
    IF Len(s) = 0 THEN NaN ELSE RDiv(RSum(s), RInt(Len(s)))

\* round-half-even of n/d for n >= 0, d > 0
RoundHalfEven(n, d) ==
    LET q == n \div d
        r == n % d
    IN  IF 2 * r < d THEN q
        ELSE IF 2 * r > d THEN q + 1
        ELSE q + (q % 2)

Pow10(k) == IF k = 1 THEN 10 ELSE 100

\* f"{x:.<digits>f}": the value rounded to `digits` decimals ("nan" for nan)
Fmt(q, digits) ==
    IF IsNaN(q) THEN [nan |-> TRUE, scaled |-> 0, digits |-> digits]
    ELSE [nan |-> FALSE,
          scaled |-> RoundHalfEven(q.num * Pow10(digits), q.den),
          digits |-> digits]

(***************************************************************************)
(* FPGASimulator                                                           *)
(***************************************************************************)
CLOCK_FREQ_MHZ == RNorm(1205, 10)
PIXELS_PER_FRAME == 640 * 480
PIPELINE_LATENCY == 1282

estimate_processing_time_ms ==
    LET total_cycles == PIXELS_PER_FRAME + PIPELINE_LATENCY
        time_ms      == RDiv(RInt(total_cycles), RMul(CLOCK_FREQ_MHZ, RInt(1000)))
    IN  RAdd(time_ms, RNorm(32, 100))


(***************************************************************************)
(* State                                                                   *)
(***************************************************************************)
VARIABLES
    now,            \* time.perf_counter(), in ticks of 1 ms
    pc,             \* position of the (single) thread inside the Benchmark methods
    cur,            \* `self` of the executing Benchmark method
    caller,         \* who called run_cpu_benchmark: "direct" or "run_comparison"
    exc,            \* exception that ended the last call ("none" if it returned)
    klog,           \* kernel invocations, model evaluations and appends of the current call
    store,          \* heap of list objects: list id -> sequence of BenchmarkResult
    self_results,   \* Benchmark.results of each session: session -> list id
    nextId,         \* identity of the next BenchmarkResult object constructed
    executed,       \* per session, operation names of the completed run_comparison calls
    image, operation_name, cpu_func,            \* arguments of run_comparison
    iterations, i, start, times, ret,           \* frame of run_cpu_benchmark
    cpu_time, fpga_time, speedup, result,       \* locals of run_comparison
    save_path, avg_speedup, report_text, returned,  \* frame of generate_report
    printed,        \* what the most recent call printed of a report (<<>>: nothing)
    saved,          \* what the most recent call wrote to save_path (<<>>: nothing)
    mpc,            \* position inside benchmark.main ("free": no main, any caller)
    plot,           \* args.plot
    plotted,        \* series handed to generate_plots
    inputs,         \* what the caller of the Benchmark methods holds: sessions, images, operations
    kimg, sobel_out, blur_out, policy,          \* kernel library: input, outputs, border modes
    upc, uargs, uploader, ser_open, ever_opened, close_calls, uexc, exit_status,
    open_failed, upload_sent

heapVars == <<store, self_results, nextId, executed>>
argVars == <<image, operation_name, cpu_func>>
cbVars == <<iterations, i, start, times, ret>>
rcVars == <<cpu_time, fpga_time, speedup, result>>
grVars == <<save_path, avg_speedup, report_text, returned>>
outVars == <<printed, saved>>
mainVars == <<mpc, plot, plotted>>
kernelVars == <<kimg, sobel_out, blur_out, policy>>
uploadVars == <<upc, uargs, uploader, ser_open, ever_opened, close_calls, uexc,
                exit_status, open_failed, upload_sent>>
benchVars == <<now, pc, cur, caller, exc, klog, heapVars, argVars, cbVars, rcVars,
               grVars, outVars, mainVars>>
otherVars == <<kernelVars, uploadVars, inputs>>
vars == <<benchVars, otherVars>>

Sessions == {1, 2}

\* image.shape of the images handed to the harness: the accelerator frame and
\* a raster of another size
FrameImage == [h |-> 480, w |-> 640]
OtherImage == [h |-> 2, w |-> 2]
NoImage == [h |-> 0, w |-> 0]
BenchImages == {FrameImage, OtherImage}

\* (operation_name, cpu_func) pairs, as in main
SobelOp == [name |-> "Sobel Edge Detection", fn |-> "sobel_edge_detection"]
GaussOp == [name |-> "Gaussian Blur", fn |-> "gaussian_blur"]
Operations == {SobelOp, GaussOp}

StrLen(s) ==
    CASE s = "Sobel Edge Detection" -> 20
      [] s = "Gaussian Blur" -> 13
      [] OTHER -> 0

NoResult ==
    [id |-> 0, name |-> "", cpu_time_ms |-> NaN, fpga_time_ms |-> NaN,
     speedup |-> NaN, image_size |-> <<0, 0>>]

NoReport == [rows |-> <<>>, avg |-> Fmt(NaN, 1)]

(***************************************************************************)
(* Benchmark.__init__: self.results = [] is a fresh list per instance.     *)
(***************************************************************************)
\* the list object allocated for session s
BenchmarkInit(s) == s

\* list.insert(0, item)
ListPrepend(list, item) == <<item>> \o list

\* list.append(item)
ListAppend(list, item) == Append(list, item)

Results(s) == store[self_results[s]]

(***************************************************************************)
(* Benchmark.run_cpu_benchmark                                             *)
(***************************************************************************)
\* time.perf_counter() in seconds at tick t
PerfCounter(t) == RNorm(t, 1000)

\* (end - start) * 1000
SampleMs(startTick, endTick) ==
    RMul(RSub(PerfCounter(endTick), PerfCounter(startTick)), RInt(1000))

\* range(iterations + 1)
LoopContinuesOffByOne(k, n) == k <= n

\* for _ in range(iterations): the k-th pass (k passes done) runs iff k < n
LoopContinues(k, n) == k < n

KernelEvent(timed, t0, t1) ==
    [ev |-> "kernel", timed |-> timed, t0 |-> t0, t1 |-> t1,
     img |-> image, fn |-> cpu_func]

OtherEvent(ev) ==
    [ev |-> ev, timed |-> FALSE, t0 |-> now, t1 |-> now,
     img |-> image, fn |-> cpu_func]

ResetCb ==
    /\ iterations' = 0
    /\ i' = 0
    /\ start' = 0
    /\ times' = <<>>
    /\ ret' = NaN

ResetRc ==
    /\ cpu_time' = NaN
    /\ fpga_time' = NaN
    /\ speedup' = NaN
    /\ result' = NoResult

ResetArgs ==
    /\ image' = NoImage
    /\ operation_name' = ""
    /\ cpu_func' = ""

ResetGr ==
    /\ save_path' = ""
    /\ avg_speedup' = NaN
    /\ report_text' = NoReport

\* lines 155: times = []
EnterRunCpuBenchmark(n, from) ==
    /\ iterations' = n
    /\ i' = 0
    /\ start' = 0
    /\ times' = <<>>
    /\ ret' = NaN
    /\ caller' = from
    /\ pc' = "cb_warmup"

\* a caller outside this file invokes run_cpu_benchmark(image, operation, iterations)
CallRunCpuBenchmark ==
    /\ pc = "idle" /\ mpc = "free"
    /\ \E img \in inputs.images, op \in inputs.ops, n \in 0..MaxIter :
          /\ image' = img
          /\ cpu_func' = op.fn
          /\ operation_name' = ""
          /\ EnterRunCpuBenchmark(n, "direct")
    /\ \E s \in inputs.sessions : cur' = s
    /\ exc' = "none"
    /\ klog' = <<>>
    /\ returned' = <<>>
    /\ printed' = <<>>
    /\ saved' = <<>>
    /\ UNCHANGED <<now, heapVars, rcVars, save_path, avg_speedup, report_text,
                   mainVars>>
    /\ UNCHANGED otherVars

\* line 158: _ = operation(image), untimed
Warmup ==
    /\ pc = "cb_warmup"
    /\ \E d \in 0..(MaxClock - now) :
          /\ now' = now + d
          /\ klog' = Append(klog, KernelEvent(FALSE, now, now + d))
    /\ pc' = "cb_loop"
    /\ UNCHANGED <<cur, caller, exc, heapVars, argVars, cbVars, rcVars, grVars,
                   outVars, mainVars>>
    /\ UNCHANGED otherVars

\* line 161: for _ in range(iterations)
LoopTest ==
    /\ pc = "cb_loop"
    /\ pc' = IF LoopContinues(i, iterations) THEN "cb_start" ELSE "cb_mean"
    /\ UNCHANGED <<now, cur, caller, exc, klog, heapVars, argVars, cbVars, rcVars,
                   grVars, outVars, mainVars>>
    /\ UNCHANGED otherVars

\* line 162: start = time.perf_counter()
ReadStart ==
    /\ pc = "cb_start"
    /\ start' = now
    /\ pc' = "cb_call"
    /\ UNCHANGED <<now, cur, caller, exc, klog, heapVars, argVars, iterations, i,
                   times, ret, rcVars, grVars, outVars, mainVars>>
    /\ UNCHANGED otherVars

\* line 163: _ = operation(image)
TimedCall ==
    /\ pc = "cb_call"
    /\ \E d \in 0..(MaxClock - now) :
          /\ now' = now + d
          /\ klog' = Append(klog, KernelEvent(TRUE, now, now + d))
    /\ pc' = "cb_end"
    /\ UNCHANGED <<cur, caller, exc, heapVars, argVars, cbVars, rcVars, grVars,
                   outVars, mainVars>>
    /\ UNCHANGED otherVars

\* lines 164-165: end = time.perf_counter(); times.append((end - start) * 1000)
ReadEnd ==
    /\ pc = "cb_end"
    /\ times' = ListAppend(times, SampleMs(start, now))
    /\ i' = i + 1
    /\ pc' = "cb_loop"
    /\ UNCHANGED <<now, cur, caller, exc, klog, heapVars, argVars, iterations,
                   start, ret, rcVars, grVars, outVars, mainVars>>
    /\ UNCHANGED otherVars

\* line 168: return np.mean(times)
ReturnMean ==
    /\ pc = "cb_mean"
    /\ ret' = Mean(times)
    /\ pc' = "cb_ret"
    /\ UNCHANGED <<now, cur, caller, exc, klog, heapVars, argVars, iterations, i,
                   start, times, rcVars, grVars, outVars, mainVars>>
    /\ UNCHANGED otherVars

\* the value reaches the direct caller and the frame is gone
CbReturnDirect ==
    /\ pc = "cb_ret" /\ caller = "direct"
    /\ pc' = "idle"
    /\ ResetCb /\ ResetArgs
    /\ klog' = <<>>
    /\ UNCHANGED <<now, cur, caller, exc, heapVars, rcVars, grVars, outVars,
                   mainVars>>
    /\ UNCHANGED otherVars

\* line 187: cpu_time = self.run_cpu_benchmark(...)
CbReturnToComparison ==
    /\ pc = "cb_ret" /\ caller = "run_comparison"
    /\ cpu_time' = ret
    /\ pc' = "rc_fpga"
    /\ ResetCb
    /\ UNCHANGED <<now, cur, caller, exc, klog, heapVars, argVars, fpga_time,
                   speedup, result, grVars, outVars, mainVars>>
    /\ UNCHANGED otherVars


(***************************************************************************)
(* Benchmark.run_comparison                                                *)
(***************************************************************************)
\* fpga_time / cpu_time
SpeedupInverted(cpu, fpga) == RDiv(fpga, cpu)

\* line 195: speedup = cpu_time / fpga_time
Speedup(cpu, fpga) == RDiv(cpu, fpga)

\* lines 182-186: entry of run_comparison(image, operation_name, cpu_func) on session s
EnterRunComparison(s, img, op) ==
    /\ cur' = s
    /\ image' = img
    /\ operation_name' = op.name
    /\ cpu_func' = op.fn
    /\ pc' = "rc_cpu"
    /\ exc' = "none"
    /\ klog' = <<>>
    /\ returned' = <<>>
    /\ printed' = <<>>
    /\ saved' = <<>>
    /\ ResetRc

\* a caller outside main invokes run_comparison
CallRunComparison ==
    /\ pc = "idle" /\ mpc = "free"
    /\ nextId <= MaxComparisons
    /\ \E s \in inputs.sessions, img \in inputs.images, op \in inputs.ops :
          EnterRunComparison(s, img, op)
    /\ UNCHANGED <<now, caller, heapVars, cbVars, save_path, avg_speedup,
                   report_text, mainVars>>
    /\ UNCHANGED otherVars

\* line 187: self.run_cpu_benchmark(image, cpu_func, iterations=10)
RcCallCpu ==
    /\ pc = "rc_cpu"
    /\ EnterRunCpuBenchmark(10, "run_comparison")
    /\ UNCHANGED <<now, cur, exc, klog, heapVars, argVars, rcVars, grVars,
                   outVars, mainVars>>
    /\ UNCHANGED otherVars

\* line 191: fpga_time = FPGASimulator.estimate_processing_time_ms()
RcFpga ==
    /\ pc = "rc_fpga"
    /\ fpga_time' = estimate_processing_time_ms
    /\ klog' = Append(klog, OtherEvent("fpga"))
    /\ pc' = "rc_speedup"
    /\ UNCHANGED <<now, cur, caller, exc, heapVars, argVars, cbVars, cpu_time,
                   speedup, result, grVars, outVars, mainVars>>
    /\ UNCHANGED otherVars

\* line 195
RcSpeedup ==
    /\ pc = "rc_speedup"
    /\ speedup' = Speedup(cpu_time, fpga_time)
    /\ pc' = "rc_append"
    /\ UNCHANGED <<now, cur, caller, exc, klog, heapVars, argVars, cbVars,
                   cpu_time, fpga_time, result, grVars, outVars, mainVars>>
    /\ UNCHANGED otherVars

\* lines 198-207: result = BenchmarkResult(...); self.results.append(result); return result
RcAppend ==
    /\ pc = "rc_append"
    /\ LET r == [id |-> nextId,
                 name |-> operation_name,
                 cpu_time_ms |-> cpu_time,
                 fpga_time_ms |-> fpga_time,
                 speedup |-> speedup,
                 image_size |-> <<image.h, image.w>>]
       IN  /\ result' = r
           /\ store' = [store EXCEPT ![self_results[cur]] = ListAppend(@, r)]
    /\ nextId' = nextId + 1
    /\ executed' = [executed EXCEPT ![cur] = Append(@, operation_name)]
    /\ klog' = Append(klog, OtherEvent("append"))
    /\ pc' = "rc_ret"
    /\ UNCHANGED <<now, cur, caller, exc, self_results, argVars, cbVars, cpu_time,
                   fpga_time, speedup, grVars, outVars, mainVars>>
    /\ UNCHANGED otherVars

\* the record reaches the caller and the frame is gone
RcReturn ==
    /\ pc = "rc_ret"
    /\ pc' = "idle"
    /\ ResetRc /\ ResetArgs
    /\ klog' = <<>>
    /\ UNCHANGED <<now, cur, caller, exc, heapVars, cbVars, grVars, outVars,
                   mainVars>>
    /\ UNCHANGED otherVars

CbPcs == {"cb_warmup", "cb_loop", "cb_start", "cb_call", "cb_end", "cb_mean", "cb_ret"}

\* KeyboardInterrupt while run_cpu_benchmark runs: no frame of benchmark.py
\* handles it, every frame is unwound, main (lines 283-296) ends with it
Interrupt ==
    /\ pc \in CbPcs
    /\ exc' = "KeyboardInterrupt"
    /\ pc' = "idle"
    /\ mpc' = IF mpc = "free" THEN "free" ELSE "m_raised"
    /\ ResetCb /\ ResetRc /\ ResetArgs
    /\ klog' = <<>>
    /\ UNCHANGED <<now, cur, caller, heapVars, grVars, outVars, plot, plotted>>
    /\ UNCHANGED otherVars

(***************************************************************************)
(* Benchmark.generate_report                                               *)
(***************************************************************************)
\* f"{result.name:<20}": left-aligned, padded to 20, never truncated
FmtName(name) ==
    [text |-> name, pad |-> IF StrLen(name) < 20 THEN 20 - StrLen(name) ELSE 0]

\* lines 231-232: one table row
Row(r) ==
    [name |-> FmtName(r.name),
     cpu |-> Fmt(r.cpu_time_ms, 2),
     fpga |-> Fmt(r.fpga_time_ms, 2),
     speedup |-> Fmt(r.speedup, 1)]

\* for result in self.results[1:]
ReportRowsSkipFirst(results) ==
    [k \in 1..(Len(results) - 1) |-> Row(results[k + 1])]

\* lines 230-232: for result in self.results
ReportRows(results) == [k \in 1..Len(results) |-> Row(results[k])]

\* line 234: np.mean([r.speedup for r in self.results])
AverageSpeedup(results) ==
    Mean([k \in 1..Len(results) |-> results[k].speedup])

\* a caller outside main invokes generate_report(save_path)
EnterGenerateReport(s, path) ==
    /\ cur' = s
    /\ save_path' = path
    /\ avg_speedup' = NaN
    /\ report_text' = NoReport
    /\ returned' = <<>>
    /\ printed' = <<>>
    /\ saved' = <<>>
    /\ exc' = "none"
    /\ pc' = "gr_build"

CallGenerateReport ==
    /\ pc = "idle" /\ mpc = "free"
    /\ \E s \in inputs.sessions, path \in {"", "benchmark_results.md"} :
          EnterGenerateReport(s, path)
    /\ UNCHANGED <<now, caller, klog, heapVars, argVars, cbVars, rcVars,
                   mainVars>>
    /\ UNCHANGED otherVars

\* lines 216-243
GrBuild ==
    /\ pc = "gr_build"
    /\ avg_speedup' = AverageSpeedup(Results(cur))
    /\ report_text' = [rows |-> ReportRows(Results(cur)),
                       avg |-> Fmt(AverageSpeedup(Results(cur)), 1)]
    /\ pc' = "gr_print"
    /\ UNCHANGED <<now, cur, caller, exc, klog, heapVars, argVars, cbVars, rcVars,
                   save_path, returned, outVars, mainVars>>
    /\ UNCHANGED otherVars

\* lines 246-248
GrPrint ==
    /\ pc = "gr_print"
    /\ printed' = <<report_text>>
    /\ pc' = "gr_save"
    /\ UNCHANGED <<now, cur, caller, exc, klog, heapVars, argVars, cbVars, rcVars,
                   grVars, saved, mainVars>>
    /\ UNCHANGED otherVars

\* lines 251-254: if save_path: with open(save_path, 'w') as f: f.write(report_text)
\* open/write may raise OSError, which nothing in benchmark.py catches
GrSave ==
    /\ pc = "gr_save"
    /\ IF save_path = ""
       THEN /\ pc' = "gr_ret"
            /\ UNCHANGED <<exc, saved, mpc, grVars>>
       ELSE \E ok \in BOOLEAN :
              IF ok
              THEN /\ saved' = <<report_text>>
                   /\ pc' = "gr_ret"
                   /\ UNCHANGED <<exc, mpc, grVars>>
              ELSE /\ exc' = "OSError"
                   /\ pc' = "idle"
                   /\ mpc' = IF mpc = "free" THEN "free" ELSE "m_raised"
                   /\ ResetGr
                   /\ UNCHANGED <<saved, returned>>
    /\ UNCHANGED <<now, cur, caller, klog, heapVars, argVars, cbVars, rcVars,
                   printed, plot, plotted>>
    /\ UNCHANGED otherVars

\* line 256: return report_text
GrReturn ==
    /\ pc = "gr_ret"
    /\ returned' = <<report_text>>
    /\ pc' = "idle"
    /\ ResetGr
    /\ UNCHANGED <<now, cur, caller, exc, klog, heapVars, argVars, cbVars, rcVars,
                   outVars, mainVars>>
    /\ UNCHANGED otherVars

(***************************************************************************)
(* benchmark.main, lines 283-296                                           *)
(***************************************************************************)
\* line 288
MainSobel ==
    /\ mpc = "m_sobel" /\ pc = "idle"
    /\ EnterRunComparison(1, FrameImage, SobelOp)
    /\ mpc' = "m_gauss"
    /\ UNCHANGED <<now, caller, heapVars, cbVars, save_path, avg_speedup,
                   report_text, plot, plotted>>
    /\ UNCHANGED otherVars

\* line 289
MainGauss ==
    /\ mpc = "m_gauss" /\ pc = "idle"
    /\ EnterRunComparison(1, FrameImage, GaussOp)
    /\ mpc' = "m_report"
    /\ UNCHANGED <<now, caller, heapVars, cbVars, save_path, avg_speedup,
                   report_text, plot, plotted>>
    /\ UNCHANGED otherVars

\* line 292: benchmark.generate_report(args.output)
MainReport ==
    /\ mpc = "m_report" /\ pc = "idle"
    /\ EnterGenerateReport(1, "benchmark_results.md")
    /\ mpc' = "m_plot"
    /\ UNCHANGED <<now, caller, klog, heapVars, argVars, cbVars, rcVars,
                   plot, plotted>>
    /\ UNCHANGED otherVars

\* lines 295-296: if args.plot: generate_plots(benchmark.results)
MainPlot ==
    /\ mpc = "m_plot" /\ pc = "idle"
    /\ plotted' = IF plot
                  THEN <<[k \in 1..Len(Results(1)) |-> Results(1)[k].name]>>
                  ELSE plotted
    /\ mpc' = "m_done"
    /\ UNCHANGED <<now, pc, cur, caller, exc, klog, heapVars, argVars, cbVars,
                   rcVars, grVars, outVars, plot>>
    /\ UNCHANGED otherVars


(***************************************************************************)
(* ImageProcessorCPU: images are sequences of rows of samples 0..255.      *)
(* The float32 arithmetic is exact here: every intermediate value is a     *)
(* multiple of 1/16 far below 2^24.                                        *)
(***************************************************************************)
Height(img) == Len(img)
Width(img) == Len(img[1])

\* lines 56-58
kernel_x == << <<-1, 0, 1>>, <<-2, 0, 2>>, <<-1, 0, 1>> >>

\* lines 60-62
kernel_y == << <<-1, -2, -1>>, <<0, 0, 0>>, <<1, 2, 1>> >>

\* a kernel whose weights sum to 17
gaussian_kernel_typo == << <<1, 2, 1>>, <<2, 4, 2>>, <<1, 2, 2>> >>

\* lines 88-90, before the division by 16.0
gaussian_kernel == << <<1, 2, 1>>, <<2, 4, 2>>, <<1, 2, 1>> >>

\* scipy.ndimage 'reflect' (d c b a | a b c d | d c b a); 1-based index k of 1..n
ReflectIndex(k, n) ==
    IF k < 1 THEN 1 - k
    ELSE IF k > n THEN 2 * n + 1 - k
    ELSE k

\* the sample the convolution reads at (r, c), which may lie one step outside
Extended(img, r, c, mode) ==
    LET h == Height(img)
        w == Width(img)
        inside == r >= 1 /\ r <= h /\ c >= 1 /\ c <= w
    IN  CASE mode = "reflect" -> img[ReflectIndex(r, h)][ReflectIndex(c, w)]
          [] mode = "constant" -> IF inside THEN img[r][c] ELSE 0
          [] OTHER -> img[IF r < 1 THEN 1 ELSE IF r > h THEN h ELSE r]
                         [IF c < 1 THEN 1 ELSE IF c > w THEN w ELSE c]

Offsets == <<-1, 0, 1>>

RECURSIVE TapSum(_, _, _, _, _, _)
\* sum over the taps t..9 of weights[tap] * input[(r, c) - offset(tap)]
TapSum(img, weights, r, c, mode, t) ==
    IF t > 9 THEN 0
    ELSE LET a == ((t - 1) \div 3) + 1
             b == ((t - 1) % 3) + 1
         IN  weights[a][b] * Extended(img, r - Offsets[a], c - Offsets[b], mode)
             + TapSum(img, weights, r, c, mode, t + 1)

\* ndimage.convolve(input, weights) with no mode argument: scipy's default
default_mode == "reflect"

\* lines 65-66: the mode of the two convolutions of sobel_edge_detection
sobel_mode == default_mode

\* line 93: the mode of the convolution of gaussian_blur
blur_mode == default_mode

\* scipy.ndimage.convolve: out[r][c] = sum_k weights[k] * input[(r, c) - k]
convolve(img, weights, mode) ==
    [r \in 1..Height(img) |->
        [c \in 1..Width(img) |-> TapSum(img, weights, r, c, mode, 1)]]

\* np.clip(x, 0, 255)
Clip(x) == IF x < 0 THEN 0 ELSE IF x > 255 THEN 255 ELSE x

\* float -> uint8: truncation toward zero, then the low 8 bits
AsUint8(n, d) == (IF n >= 0 THEN n \div d ELSE -((-n) \div d)) % 256

\* lines 41-74
sobel_edge_detection(img) ==
    LET grad_x == convolve(img, kernel_x, sobel_mode)
        grad_y == convolve(img, kernel_y, sobel_mode)
    IN  [r \in 1..Height(img) |->
            [c \in 1..Width(img) |->
                AsUint8(Clip(Abs(grad_x[r][c]) + Abs(grad_y[r][c])), 1)]]

\* lines 76-96
gaussian_blur(img) ==
    LET blurred == convolve(img, gaussian_kernel, blur_mode)
    IN  [r \in 1..Height(img) |->
            [c \in 1..Width(img) |-> AsUint8(blurred[r][c], 16)]]

UniformImage(h, w, v) == [r \in 1..h |-> [c \in 1..w |-> v]]

\* a vertical step edge: columns 1..k dark, the rest bright
StepImage(h, w, k) == [r \in 1..h |-> [c \in 1..w |-> IF c <= k THEN 0 ELSE 255]]

Dims == 1..MaxDim

KernelInputs ==
    {UniformImage(h, w, v) : h \in Dims, w \in Dims, v \in 0..255}
    \cup {StepImage(h, w, k) : h \in Dims, w \in Dims, k \in 0..MaxDim}

\* a caller invokes ImageProcessorCPU.sobel_edge_detection(kimg)
SobelCall ==
    /\ sobel_out = <<>>
    /\ sobel_out' = <<sobel_edge_detection(kimg)>>
    /\ policy' = [policy EXCEPT !.sobel = sobel_mode]
    /\ UNCHANGED <<kimg, blur_out, benchVars, uploadVars, inputs>>

\* a caller invokes ImageProcessorCPU.gaussian_blur(kimg)
BlurCall ==
    /\ blur_out = <<>>
    /\ blur_out' = <<gaussian_blur(kimg)>>
    /\ policy' = [policy EXCEPT !.blur = blur_mode]
    /\ UNCHANGED <<kimg, sobel_out, benchVars, uploadVars, inputs>>


(***************************************************************************)
(* upload_image.main, lines 209-239, with FPGAImageUploader                *)
(***************************************************************************)
IMAGE_WIDTH == 640
IMAGE_HEIGHT == 480
TOTAL_PIXELS == IMAGE_WIDTH * IMAGE_HEIGHT

BaudRates == {9600, 19200, 38400, 57600, 115200, 230400}

UploadArgs ==
    [baud : BaudRates, preview : BOOLEAN, no_progress : BOOLEAN, exists : BOOLEAN]

\* lines 212-214: if not args.image.exists(): sys.exit(1)
UExists ==
    /\ upc = "u_exists"
    /\ IF uargs.exists
       THEN upc' = "u_init" /\ UNCHANGED exit_status
       ELSE upc' = "u_exit" /\ exit_status' = 1
    /\ UNCHANGED <<uargs, uploader, ser_open, ever_opened, close_calls, uexc,
                   open_failed, upload_sent, benchVars, kernelVars, inputs>>

\* line 218: uploader = FPGAImageUploader(args.port, args.baud), __init__ lines 40-64.
\* serial.Serial(...) opens the port or raises SerialException, which __init__
\* answers with sys.exit(1): `uploader` is then never bound.  The user may
\* also interrupt the constructor.
UInit ==
    /\ upc = "u_init"
    /\ \E outcome \in {"ok", "SerialException", "KeyboardInterrupt"} :
          IF outcome = "ok"
          THEN /\ uploader' = "bound"
               /\ ser_open' = TRUE
               /\ ever_opened' = TRUE
               /\ upc' = "u_load"
               /\ UNCHANGED <<uexc, open_failed>>
          ELSE /\ uexc' = IF outcome = "SerialException" THEN "SystemExit" ELSE outcome
               /\ open_failed' = (outcome = "SerialException")
               /\ upc' = "u_handler"
               /\ UNCHANGED <<uploader, ser_open, ever_opened>>
    /\ UNCHANGED <<uargs, close_calls, exit_status, upload_sent, benchVars, kernelVars, inputs>>

\* line 221: image = uploader.load_and_prepare_image(...), lines 66-103:
\* FileNotFoundError when cv2.imread gives None; otherwise a 480x640 raster
ULoad ==
    /\ upc = "u_load"
    /\ \E outcome \in {"ok", "Exception", "KeyboardInterrupt"} :
          IF outcome = "ok"
          THEN upc' = "u_upload" /\ UNCHANGED uexc
          ELSE upc' = "u_handler" /\ uexc' = outcome
    /\ UNCHANGED <<uargs, uploader, ser_open, ever_opened, close_calls, exit_status,
                   open_failed, upload_sent, benchVars, kernelVars, inputs>>

\* line 224: uploader.upload_image(image, ...), lines 105-149.  The shape test of
\* line 116 always passes on the raster load_and_prepare_image resized; a write
\* may raise, and the user may interrupt, after any number of writes.
UUpload ==
    /\ upc = "u_upload"
    /\ LET shape == <<IMAGE_HEIGHT, IMAGE_WIDTH>>
           chunk == IF uargs.no_progress THEN 1024 ELSE 1
       IN  IF shape # <<IMAGE_HEIGHT, IMAGE_WIDTH>>
           THEN upc' = "u_handler" /\ uexc' = "Exception" /\ UNCHANGED upload_sent
           ELSE \E outcome \in {"ok", "Exception", "KeyboardInterrupt"} :
                  IF outcome = "ok"
                  THEN /\ upload_sent' = TOTAL_PIXELS
                       /\ upc' = "u_success"
                       /\ UNCHANGED uexc
                  ELSE /\ \E writes \in {0, 1} : upload_sent' = writes * chunk
                       /\ upc' = "u_handler"
                       /\ uexc' = outcome
    /\ UNCHANGED <<uargs, uploader, ser_open, ever_opened, close_calls, exit_status,
                   open_failed, benchVars, kernelVars, inputs>>

\* line 226
USuccess ==
    /\ upc = "u_success"
    /\ upc' = "u_finally"
    /\ UNCHANGED <<uargs, uploader, ser_open, ever_opened, close_calls, uexc,
                   exit_status, open_failed, upload_sent, benchVars, kernelVars, inputs>>

\* lines 228-236: both handlers print and call sys.exit(1); SystemExit is a
\* BaseException and passes them by
UHandler ==
    /\ upc = "u_handler"
    /\ uexc' = IF uexc \in {"KeyboardInterrupt", "Exception"} THEN "SystemExit" ELSE uexc
    /\ upc' = "u_finally"
    /\ UNCHANGED <<uargs, uploader, ser_open, ever_opened, close_calls, exit_status,
                   open_failed, upload_sent, benchVars, kernelVars, inputs>>

\* lines 238-239: finally: uploader.close(), close at lines 151-155.  Reading the
\* unbound local `uploader` raises UnboundLocalError, which replaces the
\* exception in flight.
UFinally ==
    /\ upc = "u_finally"
    /\ IF uploader = "unbound"
       THEN /\ close_calls' = Append(close_calls, "unbound")
            /\ uexc' = "UnboundLocalError"
            /\ UNCHANGED ser_open
       ELSE /\ close_calls' = Append(close_calls, "bound")
            /\ ser_open' = FALSE
            /\ UNCHANGED uexc
    /\ upc' = "u_leave"
    /\ UNCHANGED <<uargs, uploader, ever_opened, exit_status, open_failed,
                   upload_sent, benchVars, kernelVars, inputs>>

\* the interpreter ends: status 0 on a normal return, 1 for SystemExit(1) and
\* for an uncaught exception
UExit ==
    /\ upc = "u_leave"
    /\ exit_status' = IF uexc = "none" THEN 0 ELSE 1
    /\ upc' = "u_exit"
    /\ UNCHANGED <<uargs, uploader, ser_open, ever_opened, close_calls, uexc,
                   open_failed, upload_sent, benchVars, kernelVars, inputs>>

(***************************************************************************)
(* Initial states and specifications                                       *)
(***************************************************************************)
BenchStart ==
    /\ now = 0
    /\ pc = "idle"
    /\ cur = 1
    /\ caller = "direct"
    /\ exc = "none"
    /\ klog = <<>>
    /\ self_results = [s \in Sessions |-> BenchmarkInit(s)]
    /\ store = [l \in Sessions |-> <<>>]
    /\ nextId = 1
    /\ executed = [s \in Sessions |-> <<>>]
    /\ image = NoImage /\ operation_name = "" /\ cpu_func = ""
    /\ iterations = 0 /\ i = 0 /\ start = 0 /\ times = <<>> /\ ret = NaN
    /\ cpu_time = NaN /\ fpga_time = NaN /\ speedup = NaN /\ result = NoResult
    /\ save_path = "" /\ avg_speedup = NaN /\ report_text = NoReport
    /\ returned = <<>>
    /\ printed = <<>>
    /\ saved = <<>>
    /\ plotted = <<>>

KernelStart ==
    /\ sobel_out = <<>>
    /\ blur_out = <<>>
    /\ policy = [sobel |-> "", blur |-> ""]

UploadStart ==
    /\ uploader = "unbound"
    /\ ser_open = FALSE
    /\ ever_opened = FALSE
    /\ close_calls = <<>>
    /\ uexc = "none"
    /\ exit_status = -1
    /\ open_failed = FALSE
    /\ upload_sent = 0

NoKernel == KernelStart /\ kimg = UniformImage(1, 1, 0)

NoUpload ==
    /\ UploadStart
    /\ upc = "u_none"
    /\ uargs = [baud |-> 115200, preview |-> FALSE, no_progress |-> FALSE,
                exists |-> TRUE]

\* Benchmark sessions driven by any caller
Init ==
    /\ BenchStart /\ mpc = "free" /\ plot = FALSE /\ NoKernel /\ NoUpload
    /\ inputs = [sessions |-> Sessions, images |-> {FrameImage}, ops |-> Operations]

Next ==
    \/ CallRunComparison \/ CallGenerateReport
    \/ Warmup \/ LoopTest \/ ReadStart \/ TimedCall \/ ReadEnd \/ ReturnMean
    \/ CbReturnToComparison
    \/ RcCallCpu \/ RcFpga \/ RcSpeedup \/ RcAppend \/ RcReturn
    \/ GrBuild \/ GrPrint \/ GrSave \/ GrReturn
    \/ Interrupt

Spec == Init /\ [][Next]_vars

\* The timing protocol: one session and one operation, run_cpu_benchmark called
\* directly with any iteration count and through run_comparison, on rasters of
\* either size
InitTiming ==
    /\ BenchStart /\ mpc = "free" /\ plot = FALSE /\ NoKernel /\ NoUpload
    /\ inputs = [sessions |-> {1}, images |-> BenchImages, ops |-> {SobelOp}]

NextTiming ==
    \/ CallRunCpuBenchmark \/ CallRunComparison
    \/ Warmup \/ LoopTest \/ ReadStart \/ TimedCall \/ ReadEnd \/ ReturnMean
    \/ CbReturnDirect \/ CbReturnToComparison
    \/ RcCallCpu \/ RcFpga \/ RcSpeedup \/ RcAppend \/ RcReturn
    \/ Interrupt

SpecTiming == InitTiming /\ [][NextTiming]_vars

\* benchmark.main from line 283 on
InitMain ==
    /\ BenchStart /\ mpc = "m_sobel" /\ plot \in BOOLEAN /\ NoKernel /\ NoUpload
    /\ inputs = [sessions |-> {1}, images |-> {FrameImage}, ops |-> Operations]

NextMain ==
    \/ MainSobel \/ MainGauss \/ MainReport \/ MainPlot
    \/ Warmup \/ LoopTest \/ ReadStart \/ TimedCall \/ ReadEnd \/ ReturnMean
    \/ CbReturnToComparison
    \/ RcCallCpu \/ RcFpga \/ RcSpeedup \/ RcAppend \/ RcReturn
    \/ GrBuild \/ GrPrint \/ GrSave \/ GrReturn
    \/ Interrupt

SpecMain == InitMain /\ [][NextMain]_vars

\* the kernel library on its own
InitKernel ==
    /\ BenchStart /\ mpc = "free" /\ plot = FALSE /\ NoUpload
    /\ inputs = [sessions |-> {}, images |-> {}, ops |-> {}]
    /\ KernelStart /\ kimg \in KernelInputs

NextKernel == SobelCall \/ BlurCall

SpecKernel == InitKernel /\ [][NextKernel]_vars

\* upload_image.main
InitUpload ==
    /\ BenchStart /\ mpc = "free" /\ plot = FALSE /\ NoKernel
    /\ inputs = [sessions |-> {}, images |-> {}, ops |-> {}]
    /\ UploadStart /\ upc = "u_exists" /\ uargs \in UploadArgs

NextUpload ==
    UExists \/ UInit \/ ULoad \/ UUpload \/ USuccess \/ UHandler \/ UFinally \/ UExit

SpecUpload == InitUpload /\ [][NextUpload]_vars


(***************************************************************************)
(* Properties                                                              *)
(***************************************************************************)
RcPcs == {"rc_cpu", "rc_fpga", "rc_speedup", "rc_append", "rc_ret"}
GrPcs == {"gr_build", "gr_print", "gr_save", "gr_ret"}

InComparison == pc \in RcPcs \/ (pc \in CbPcs /\ caller = "run_comparison")

Ids(list) == {list[k].id : k \in 1..Len(list)}

NoSharing ==
    \A s1 \in Sessions, s2 \in Sessions :
        s1 # s2 => Ids(Results(s1)) \cap Ids(Results(s2)) = {}

\* in one step: list l is untouched, or the running run_comparison put the
\* record it returns at its end
ExtendedByResult(l) ==
    /\ pc = "rc_append"
    /\ l = self_results[cur]
    /\ Len(store'[l]) = Len(store[l]) + 1
    /\ SubSeq(store'[l], 1, Len(store[l])) = store[l]
    /\ store'[l][Len(store'[l])] = result'

AppendOnlyStep ==
    /\ self_results' = self_results
    /\ \A l \in DOMAIN store : store'[l] = store[l] \/ ExtendedByResult(l)
    /\ pc = "rc_append" =>
          /\ ExtendedByResult(self_results[cur])
          /\ pc' = "rc_ret"
          /\ \A k \in 1..Len(store[self_results[cur]]) :
                store[self_results[cur]][k].id # result'.id
    /\ pc \in GrPcs => store' = store
    /\ NoSharing'

\* C1: Benchmark.results is append-only and insertion-ordered: a completing
\* run_comparison appends exactly the record it returns at the end of its own
\* session's list, generate_report leaves the lists as they are, no other step
\* touches them, and two sessions never hold the same record.
C1_AppendOnly == [][AppendOnlyStep]_vars

C1_Witness ==
    /\ Len(Results(1)) = 1
    /\ Len(Results(2)) = 1
    /\ returned # <<>>
    /\ pc = "idle"

RowsMatch(report, names) ==
    /\ Len(report.rows) = Len(names)
    /\ \A k \in 1..Len(names) : report.rows[k].name.text = names[k]

\* C2: the report generate_report builds, prints and returns has exactly one row
\* per comparison completed in that session (none included), the k-th row naming
\* the k-th comparison.
C2_ReportComplete ==
    /\ pc \in {"gr_print", "gr_save", "gr_ret"} => RowsMatch(report_text, executed[cur])
    /\ printed # <<>> => RowsMatch(printed[1], executed[cur])
    /\ returned # <<>> => RowsMatch(returned[1], executed[cur])

C2_Witness ==
    /\ returned # <<>>
    /\ Len(returned[1].rows) = 2
    /\ returned[1].rows[1].name.text # returned[1].rows[2].name.text

Duration(e) == RInt(e.t1 - e.t0)

KernelCalls == SelectSeq(klog, LAMBDA e : e.ev = "kernel")

\* C3: run_cpu_benchmark runs the kernel iterations + 1 times, one after the
\* other on the same image; the first run is the untimed warm-up and precedes
\* every sample; the samples are the durations of the other runs, one each, and
\* the value returned is their mean.  run_comparison evaluates the timing model
\* once, after the CPU timing and before the append.
C3_TimingProtocol ==
    /\ times # <<>> => (klog # <<>> /\ ~klog[1].timed)
    /\ Len(times) <= Len(KernelCalls)
    /\ pc = "cb_ret" =>
          /\ Len(klog) = iterations + 1
          /\ \A k \in 1..Len(klog) :
                /\ klog[k].ev = "kernel"
                /\ klog[k].img = image
                /\ klog[k].fn = cpu_func
                /\ klog[k].timed = (k > 1)
                /\ k < Len(klog) => klog[k].t1 <= klog[k + 1].t0
          /\ Len(times) = iterations
          /\ \A k \in 1..Len(times) : times[k] = Duration(klog[k + 1])
          /\ IF iterations = 0
             THEN IsNaN(ret)
             ELSE RMul(ret, RInt(iterations))
                    = RSum([k \in 1..iterations |-> Duration(klog[k + 1])])
    /\ pc \in {"rc_fpga"} => \A k \in 1..Len(klog) : klog[k].ev = "kernel"
    /\ pc \in {"rc_speedup", "rc_append"} =>
          /\ Len(klog) = Len(KernelCalls) + 1
          /\ klog[Len(klog)].ev = "fpga"
    /\ pc = "rc_ret" =>
          /\ Len(klog) = Len(KernelCalls) + 2
          /\ klog[Len(klog) - 1].ev = "fpga"
          /\ klog[Len(klog)].ev = "append"

C3_Witness ==
    /\ pc = "cb_ret"
    /\ caller = "direct"
    /\ iterations = 2
    /\ klog[1].t1 > klog[1].t0
    /\ RPositive(times[2])

AllResults == UNION {{Results(s)[k] : k \in 1..Len(Results(s))} : s \in Sessions}

\* C4: every stored record has speedup = cpu_time_ms / fpga_time_ms with
\* fpga_time_ms > 0 and the same for all records, and the aggregate that
\* generate_report writes (to one decimal) is the mean of the speedups of the
\* records in the store.
C4_SpeedupConsistent ==
    /\ \A r \in AllResults :
          /\ RPositive(r.fpga_time_ms)
          /\ r.speedup = RDiv(r.cpu_time_ms, r.fpga_time_ms)
    /\ \A r1 \in AllResults, r2 \in AllResults : r1.fpga_time_ms = r2.fpga_time_ms
    /\ pc \in {"gr_print", "gr_save", "gr_ret"} =>
          LET rs == Results(cur)
              n  == Len(rs)
          IN  /\ IF n = 0
                 THEN IsNaN(avg_speedup)
                 ELSE RMul(avg_speedup, RInt(n)) = RSum([k \in 1..n |-> rs[k].speedup])
              /\ report_text.avg = Fmt(avg_speedup, 1)

C4_Witness ==
    /\ pc = "gr_ret"
    /\ Len(Results(cur)) = 2
    /\ Results(cur)[1].speedup # Results(cur)[2].speedup
    /\ RPositive(avg_speedup)

Mismatch(img) == img.h * img.w # PIXELS_PER_FRAME

\* C5: run_comparison on an image whose width*height is not the model's pixels
\* per frame fails before any kernel invocation and appends nothing.
C5_DimensionsValidated ==
    /\ (InComparison /\ Mismatch(image)) => KernelCalls = <<>>
    /\ \A r \in AllResults : r.image_size[1] * r.image_size[2] = PIXELS_PER_FRAME

\* C6: an interrupt during the timing loop of a comparison in main leaves the
\* earlier records in the store, appends no partial record, runs no further
\* comparison, and a report of the records appended so far has been flushed
\* when the interrupt leaves main.
C6_InterruptFlushesReport ==
    (mpc = "m_raised" /\ exc = "KeyboardInterrupt") =>
        /\ pc = "idle"
        /\ Len(Results(1)) = Len(executed[1])
        /\ \/ (printed # <<>> /\ RowsMatch(printed[1], executed[1]))
           \/ (saved # <<>> /\ RowsMatch(saved[1], executed[1]))

\* C8: when writing the report file fails, the text has been printed and is
\* still returned, the store is as it was, and main goes on to the steps after
\* report generation.
C8_WriteFailureRecoverable ==
    exc = "OSError" =>
        /\ printed # <<>>
        /\ returned # <<>>
        /\ Len(Results(cur)) = Len(executed[cur])
        /\ mpc # "m_raised"

\* C10: the mean run_cpu_benchmark returns is a number greater than 0 for every
\* image and iteration count it accepts.
C10_MeanPositive == pc = "cb_ret" => RPositive(ret)

IsUniform(img, v) ==
    \A r \in 1..Height(img), c \in 1..Width(img) : img[r][c] = v

SameShape(a, b) ==
    /\ Height(a) = Height(b)
    /\ \A r \in 1..Height(a) : Len(a[r]) = Len(b[r])

InRange(img) ==
    \A r \in 1..Height(img) : \A c \in 1..Len(img[r]) : img[r][c] \in 0..255

\* samples whose whole 3x3 neighbourhood lies inside the image
Interior(img) ==
    {<<r, c>> \in (2..(Height(img) - 1)) \X (2..(Width(img) - 1)) : TRUE}

\* C9: on a uniform image of value V both kernels return an image of the same
\* dimensions, sobel_edge_detection with every interior sample 0 and
\* gaussian_blur with every interior sample V; both use the same border mode
\* and every output sample is in 0..255.
C9_UniformInput ==
    /\ sobel_out # <<>> =>
          /\ SameShape(sobel_out[1], kimg)
          /\ InRange(sobel_out[1])
          /\ \A v \in 0..255 : IsUniform(kimg, v) =>
                \A p \in Interior(kimg) : sobel_out[1][p[1]][p[2]] = 0
    /\ blur_out # <<>> =>
          /\ SameShape(blur_out[1], kimg)
          /\ InRange(blur_out[1])
          /\ \A v \in 0..255 : IsUniform(kimg, v) =>
                \A p \in Interior(kimg) : blur_out[1][p[1]][p[2]] = v
    /\ (sobel_out # <<>> /\ blur_out # <<>>) => policy.sobel = policy.blur

C9_Witness ==
    /\ kimg = UniformImage(3, 3, 200)
    /\ sobel_out # <<>>
    /\ blur_out # <<>>

\* C7: whenever upload_image.main has ended, a port that was opened is closed,
\* close was only ever called on an existing uploader, and a port that could
\* not be opened gave a non-zero exit status.
C7_ChannelReleased ==
    upc = "u_exit" =>
        /\ ever_opened => ~ser_open
        /\ \A k \in 1..Len(close_calls) : close_calls[k] = "bound"
        /\ open_failed => exit_status # 0

====
